---- MODULE Spec2Model ----
(***************************************************************************)
(* A model of glob/cnr_utils.py, the ComfyRegistry client of               *)
(* ComfyUI-Manager: the two-tier listing cache (get_cnr_data), the         *)
(* paginated fetch (fetch_page, fetch_all) and its worker pool, the        *)
(* memoized point lookups (install_node, all_versions_of_node), the client *)
(* fingerprint (get_version_and_form_factor), the local metadata reader    *)
(* (read_cnr_info) and the identifier files (generate_cnr_id,              *)
(* read_cnr_id).                                                           *)
(*                                                                         *)
(* Specifications: Spec (one caller of get_cnr_data), SpecPool (fetch_all  *)
(* on a registry with more pages than workers), SpecRace (two concurrent   *)
(* callers of get_cnr_data), SpecLookup (the point lookups), SpecEnv (the  *)
(* fingerprint), SpecLocal (read_cnr_info), SpecId (the identifier files). *)
(*                                                                         *)
(* Python strings that the code concatenates (URLs, cache keys) are        *)
(* sequences of tokens, so that concatenation is \o.  Python dicts are     *)
(* functions (records) whose DOMAIN is the set of keys present; None is    *)
(* the record None.  A value handed back to a caller is tagged with its    *)
(* Python type: [t |-> "list" | "dict" | "None" | "NodeVersion" | "json",  *)
(* v |-> <<...>>].                                                         *)
(***************************************************************************)
EXTENDS Integers, Sequences, FiniteSets, TLC

VARIABLES
    memory_cache,   \* line 18: the in-memory tier, cache key -> value
    cache_files,    \* the persisted tier: cache path -> file content
    pc,             \* where the get_cnr_data caller is
    call,           \* the arguments of the current get_cnr_data call and the tiers when it began
    tiers,          \* the tiers the current call consulted, in order
    requested,      \* page number -> how many GETs the current call issued for it
    first_page,     \* fetch_all: line 96
    total_pages,    \* fetch_all: line 100
    nodes,          \* fetch_all: the list being merged (lines 95, 101, 110)
    tasks,          \* fetch_all: page -> "queued" | "running" | "done" (the executor's futures)
    results,        \* fetch_all: page -> what its fetch_page returned
    i,              \* fetch_all: the loop index of line 107
    json_obj,       \* get_cnr_data: line 153
    fetch_all_end,  \* how fetch_all ended in the current call
    outcome,        \* which branch of get_cnr_data the current call took
    ret,            \* what the last finished call returned
    raised,         \* the exception the last finished call let through to its caller ("" if none)
    prev,           \* the get_cnr_data call that finished before the current one
    lookup,         \* the last point lookup (install_node, all_versions_of_node)
    fetched,        \* lookup arguments -> what the first call answered 200 for them returned
    dirs,           \* the node pack directories: path -> its pyproject.toml and .tracking
    cnr_info_cache, \* line 19: path -> the identity read_cnr_info returned for it
    read,           \* the last read_cnr_info call: its path and what it found when it began
    first_result,   \* path -> what the first read_cnr_info call for it returned
    first_identity, \* path -> the first package identity a read_cnr_info call returned for it
    env,            \* what get_version_and_form_factor reads: environment, platform, host version
    version_cache,  \* line 21: the lru_cache of get_version_and_form_factor
    first_pair,     \* the pair the first get_version_and_form_factor call of the process returned
    seen_env,       \* what the last get_version_and_form_factor call had before it
    cnr_id_files,   \* path of a node pack -> its .git/.cnr-id file
    id_call,        \* the last generate_cnr_id or read_cnr_id call
    first_written,  \* path -> the identifier of the first generate_cnr_id call that wrote it
    threads,        \* the concurrent get_cnr_data callers: thread -> where it is and its listing
    last_writer     \* which thread wrote each tier last (0: none)

vars == <<memory_cache, cache_files, pc, call, tiers, requested, first_page, total_pages, nodes,
          tasks, results, i, json_obj, fetch_all_end, outcome, ret, raised, prev, lookup,
          fetched, dirs, cnr_info_cache, read, first_result, first_identity, env, version_cache, first_pair,
          seen_env, cnr_id_files, id_call, first_written, threads,
          last_writer>>

fetch_vars == <<total_pages, nodes, tasks, results, i>>

\* The state of the local metadata reader (read_cnr_info).
local_vars == <<dirs, cnr_info_cache, read, first_result, first_identity>>

\* The state of the client fingerprint (get_version_and_form_factor).
env_vars == <<env, version_cache, first_pair, seen_env>>

\* The state of the companion identifier files (generate_cnr_id, read_cnr_id).
id_vars == <<cnr_id_files, id_call, first_written>>

\* The concurrent callers of get_cnr_data.
race_vars == <<threads, last_writer>>

lookup_frame == <<cache_files, pc, call, tiers, requested, first_page, total_pages, nodes,
                  tasks, results, i, json_obj, fetch_all_end, outcome, prev, local_vars,
                  env_vars, id_vars, race_vars>>

-----------------------------------------------------------------------------
(* Bounds *)

MaxPages == 3          \* the largest totalPages the registry reports

PoolPages == 12        \* the totalPages of a registry with more pages than the pool has workers

(* Program constants *)

max_workers == 10

base_url == <<"https://api.comfy.org">>

uri == base_url \o <<"/nodes">>

-----------------------------------------------------------------------------
(* Python values *)

None == [None |-> TRUE]

EmptyDict == [k \in {} |-> TRUE]

Falsy(v) == v = None \/ v = EmptyDict

RetList(s) == [t |-> "list", v |-> s]

RetEmptyDict == [t |-> "dict", v |-> <<>>]

RetNone == [t |-> "None", v |-> <<>>]

NoRet == [t |-> "no call", v |-> <<>>]

Pages == 1..MaxPages

NoRequests == [p \in 1..PoolPages |-> 0]

-----------------------------------------------------------------------------
(* The registry, as seen through requests.get *)

\* The entries page p holds: one without a latest_version and one with.
PageNodes(p) ==
    << [id |-> 10 * p],
       [id |-> 10 * p + 1, latest_version |-> [version |-> "1.0.0"]] >>

\* A body that response.json() cannot parse.
Garbage == [garbage |-> TRUE]

\* The bodies a 200 answer for page p may carry when the registry has n pages.
PageBodies(p, n) ==
    { [nodes |-> PageNodes(p), totalPages |-> n],
      [totalPages |-> n],
      [nodes |-> PageNodes(p)],
      EmptyDict,
      Garbage }

\* What one GET of page p can come to.
PageResponses(p, n) ==
    { [kind |-> "exception", status_code |-> 0, body |-> Garbage] }
    \cup { [kind |-> "http", status_code |-> 404, body |-> Garbage] }
    \cup { [kind |-> "http", status_code |-> 200, body |-> b] : b \in PageBodies(p, n) }

\* fetch_page, lines 76-82, on the answer to its GET.
fetch_page(response) ==
    IF response.kind = "exception" THEN None
    ELSE IF response.status_code = 200
         THEN IF response.body = Garbage THEN None ELSE response.body
         ELSE None

-----------------------------------------------------------------------------
(* fetch_all's pure parts *)

\* lines 109-110
extend_page(ns, result) ==
    IF ~Falsy(result) /\ "nodes" \in DOMAIN result THEN ns \o result.nodes ELSE ns

\* A faulty variant of normalize_node: the placeholder overwrites a published latest_version.
normalize_node_overwrites(node) ==
    [k \in DOMAIN node \cup {"latest_version"} |->
        IF k = "latest_version" THEN [version |-> "nightly"] ELSE node[k]]

\* lines 116-118
normalize_node(node) ==
    IF "latest_version" \notin DOMAIN node
    THEN [k \in DOMAIN node \cup {"latest_version"} |->
            IF k = "latest_version" THEN [version |-> "nightly"] ELSE node[k]]
    ELSE node

normalize(ns) == [k \in DOMAIN ns |-> normalize_node(ns[k])]

-----------------------------------------------------------------------------
(* The persisted tier (manager_util) *)

get_cache_path(u) == <<"cache/">> \o u

path_exists(files, path) == path \in DOMAIN files

json_load(content) == content

save_to_cache(files, u, obj) ==
    [p \in DOMAIN files \cup {get_cache_path(u)} |->
        IF p = get_cache_path(u) THEN obj ELSE files[p]]

\* A listing a previous process left in the persisted tier.
OldListing == [nodes |-> << [id |-> 0, latest_version |-> [version |-> "nightly"]] >>]

-----------------------------------------------------------------------------
(* get_cnr_data *)

mem_store(mem, key, value) ==
    [k \in DOMAIN mem \cup {key} |-> IF k = key THEN value ELSE mem[k]]

\* A faulty variant of tier_lookup: dont_wait is ignored, a double miss always goes on to fetch.
tier_lookup_always_waits(mem, files, cache_mode, dont_wait) ==
    IF cache_mode
    THEN IF uri \in DOMAIN mem
         THEN [outcome |-> "memory_hit", tiers |-> <<"memory">>,
               ret |-> RetList(mem[uri].nodes), mem |-> mem]
         ELSE IF path_exists(files, get_cache_path(uri))
              THEN LET data == json_load(files[get_cache_path(uri)])
                   IN  [outcome |-> "persisted_hit", tiers |-> <<"memory", "persisted">>,
                        ret |-> RetList(data.nodes), mem |-> mem_store(mem, uri, data)]
              ELSE [outcome |-> "fetch", tiers |-> <<"memory", "persisted">>,
                    ret |-> NoRet, mem |-> mem]
    ELSE [outcome |-> "fetch", tiers |-> <<>>, ret |-> NoRet, mem |-> mem]

\* A faulty variant of tier_lookup: cache_mode is ignored, the tiers are consulted on every call.
tier_lookup_always_cached(mem, files, cache_mode, dont_wait) ==
    IF uri \in DOMAIN mem
    THEN [outcome |-> "memory_hit", tiers |-> <<"memory">>,
          ret |-> RetList(mem[uri].nodes), mem |-> mem]
    ELSE IF path_exists(files, get_cache_path(uri))
         THEN LET data == json_load(files[get_cache_path(uri)])
              IN  [outcome |-> "persisted_hit", tiers |-> <<"memory", "persisted">>,
                   ret |-> RetList(data.nodes), mem |-> mem_store(mem, uri, data)]
         ELSE IF cache_mode /\ dont_wait
              THEN [outcome |-> "degraded", tiers |-> <<"memory", "persisted">>,
                    ret |-> RetEmptyDict, mem |-> mem]
              ELSE [outcome |-> "fetch", tiers |-> <<"memory", "persisted">>,
                    ret |-> NoRet, mem |-> mem]

\* A faulty variant of tier_lookup: the persisted tier is read before the in-memory tier.
tier_lookup_persisted_first(mem, files, cache_mode, dont_wait) ==
    IF cache_mode
    THEN IF path_exists(files, get_cache_path(uri))
         THEN LET data == json_load(files[get_cache_path(uri)])
              IN  [outcome |-> "persisted_hit", tiers |-> <<"persisted">>,
                   ret |-> RetList(data.nodes), mem |-> mem_store(mem, uri, data)]
         ELSE IF uri \in DOMAIN mem
              THEN [outcome |-> "memory_hit", tiers |-> <<"persisted", "memory">>,
                    ret |-> RetList(mem[uri].nodes), mem |-> mem]
              ELSE IF dont_wait
                   THEN [outcome |-> "degraded", tiers |-> <<"persisted", "memory">>,
                         ret |-> RetEmptyDict, mem |-> mem]
                   ELSE [outcome |-> "fetch", tiers |-> <<"persisted", "memory">>,
                         ret |-> NoRet, mem |-> mem]
    ELSE [outcome |-> "fetch", tiers |-> <<>>, ret |-> NoRet, mem |-> mem]

\* A faulty variant of tier_lookup: a refresh drops the in-memory entry before it fetches.
tier_lookup_invalidates(mem, files, cache_mode, dont_wait) ==
    IF cache_mode
    THEN IF uri \in DOMAIN mem
         THEN [outcome |-> "memory_hit", tiers |-> <<"memory">>,
               ret |-> RetList(mem[uri].nodes), mem |-> mem]
         ELSE IF path_exists(files, get_cache_path(uri))
              THEN LET data == json_load(files[get_cache_path(uri)])
                   IN  [outcome |-> "persisted_hit", tiers |-> <<"memory", "persisted">>,
                        ret |-> RetList(data.nodes), mem |-> mem_store(mem, uri, data)]
              ELSE IF dont_wait
                   THEN [outcome |-> "degraded", tiers |-> <<"memory", "persisted">>,
                         ret |-> RetEmptyDict, mem |-> mem]
                   ELSE [outcome |-> "fetch", tiers |-> <<"memory", "persisted">>,
                         ret |-> NoRet, mem |-> mem]
    ELSE [outcome |-> "fetch", tiers |-> <<>>, ret |-> NoRet,
          mem |-> [k \in DOMAIN mem \ {uri} |-> mem[k]]]

\* lines 135-149: what the cache branch decides.
tier_lookup(mem, files, cache_mode, dont_wait) ==
    IF cache_mode
    THEN IF uri \in DOMAIN mem
         THEN [outcome |-> "memory_hit", tiers |-> <<"memory">>,
               ret |-> RetList(mem[uri].nodes), mem |-> mem]
         ELSE IF path_exists(files, get_cache_path(uri))
              THEN LET data == json_load(files[get_cache_path(uri)])
                   IN  [outcome |-> "persisted_hit", tiers |-> <<"memory", "persisted">>,
                        ret |-> RetList(data.nodes), mem |-> mem_store(mem, uri, data)]
              ELSE IF dont_wait
                   THEN [outcome |-> "degraded", tiers |-> <<"memory", "persisted">>,
                         ret |-> RetEmptyDict, mem |-> mem]
                   ELSE [outcome |-> "fetch", tiers |-> <<"memory", "persisted">>,
                         ret |-> NoRet, mem |-> mem]
    ELSE [outcome |-> "fetch", tiers |-> <<>>, ret |-> NoRet, mem |-> mem]

NoPrev == [valid |-> FALSE, cache_mode |-> FALSE, outcome |-> "", ret |-> NoRet,
           page1_failed |-> FALSE, mem0 |-> [k \in {} |-> None], files0 |-> [p \in {} |-> None]]

NoResponse == [kind |-> "none", status_code |-> 0, parses |-> FALSE, keys |-> {}]

NoLookup == [op |-> "", node_id |-> <<>>, version |-> [is_none |-> TRUE, s |-> <<>>],
             key |-> <<>>, mem0 |-> [k \in {} |-> None], requests |-> 0,
             response |-> NoResponse, known |-> FALSE, again |-> FALSE]

-----------------------------------------------------------------------------
(* The node pack directories that read_cnr_info looks at *)

Paths == { <<"custom_nodes/", "p">>, <<"custom_nodes/", "q">> }

NoRepository == [is_none |-> TRUE, s |-> <<>>]

Repository(s) == [is_none |-> FALSE, s |-> s]

NoFile == [exists |-> FALSE]

File(content) == [exists |-> TRUE, content |-> content]

\* What a pyproject.toml can hold: text that toml.load rejects, or a document.
Unparsable == [parses |-> FALSE, data |-> EmptyDict]

Toml(data) == [parses |-> TRUE, data |-> data]

Descriptors ==
    { Toml([project |-> [name |-> <<" ", "Pack", " ">>, version |-> <<2, 5>>,
                         urls |-> [Repository |-> <<"https://github.com/x/pack">>]]]),
      Toml([project |-> [name |-> <<"other">>, version |-> <<1, 0, 0>>]]),
      Toml([project |-> [version |-> <<1, 0, 0>>]]),
      Toml([project |-> [name |-> <<" ">>, version |-> <<1, 0, 0>>]]),
      Unparsable }

EmptyDir == [toml |-> NoFile, tracking |-> FALSE]

RetInfo(r) == [t |-> "dict", v |-> <<r>>]

NoRead == [valid |-> FALSE, path |-> <<>>, tracking |-> FALSE, found |-> NoRet,
           first |-> NoRet, identity |-> NoRet]

-----------------------------------------------------------------------------
(* What get_version_and_form_factor reads *)

Unset == [is_none |-> TRUE, s |-> <<>>]

Str(s) == [is_none |-> FALSE, s |-> s]

\* os.environ.get('__COMFYUI_DESKTOP_VERSION__')
Markers == { Unset, Str(<<>>), Str(<<"0.4.5">>) }

\* platform.system()
Systems == { "Windows", "Darwin", "Linux", "FreeBSD" }

\* manager_core.get_current_comfyui_ver() and manager_core.get_comfyui_tag()
HostVersions == { Unset, Str(<<"v0.3.40">>) }

Envs == [marker : Markers, system : Systems, current_ver : HostVersions, tag : HostVersions]

GitLinux == [marker |-> Unset, system |-> "Linux", current_ver |-> Unset,
             tag |-> Str(<<"v0.3.40">>)]

NoPair == [cached |-> FALSE, comfyui_ver |-> <<>>, form_factor |-> ""]

RetPair(pair) == [t |-> "tuple", v |-> <<pair.comfyui_ver, <<pair.form_factor>>>>]

-----------------------------------------------------------------------------
(* The companion identifier files *)

\* The cnr_id arguments of generate_cnr_id.
CnrIds == { <<"pack">>, <<"other">>, <<"pack", "\n">> }

RetStr(s) == [t |-> "str", v |-> s]

RetInt(n) == [t |-> "int", v |-> <<n>>]

NoIdCall == [op |-> "", path |-> <<>>, before |-> NoFile, how |-> ""]

-----------------------------------------------------------------------------
(* The concurrent callers of get_cnr_data *)

Threads == {1, 2}

NoThreads == [t \in Threads |-> [pc |-> "idle", json_obj |-> EmptyDict]]

\* str.lower() on one token
lower_token(t) ==
    CASE t = "Pack" -> "pack"
      [] t = "Windows" -> "windows"
      [] t = "Darwin" -> "darwin"
      [] t = "Linux" -> "linux"
      [] t = "FreeBSD" -> "freebsd"
      [] OTHER -> t

\* lines 30-60: the pair computed from what the process sees now.
version_and_form_factor(e) ==
    LET is_desktop == ~e.marker.is_none /\ e.marker.s # <<>>
        system == lower_token(e.system)
        v == IF is_desktop THEN e.current_ver ELSE e.tag
    IN  [cached |-> TRUE,
         comfyui_ver |-> IF v.is_none \/ v.s = <<>> THEN <<"unknown">> ELSE v.s,
         form_factor |->
            IF is_desktop
            THEN (IF system = "windows" THEN "desktop-win"
                  ELSE IF system = "darwin" THEN "desktop-mac"
                  ELSE "other")
            ELSE (IF system = "windows" THEN "git-windows"
                  ELSE IF system = "darwin" THEN "git-mac"
                  ELSE IF system = "linux" THEN "git-linux"
                  ELSE "other")]

\* A faulty variant of get_version_and_form_factor: no lru_cache, every call computes.
get_version_and_form_factor_uncached(cache, e) == version_and_form_factor(e)

\* lines 21-22: lru_cache(maxsize=1) on a function without arguments.
get_version_and_form_factor(cache, e) ==
    IF cache.cached THEN cache ELSE version_and_form_factor(e)

Init ==
    /\ memory_cache = [k \in {} |-> None]
    /\ cache_files \in { [p \in {} |-> None],
                         [p \in {get_cache_path(uri)} |-> OldListing] }
    /\ pc = "idle"
    /\ call = [cache_mode |-> FALSE, dont_wait |-> FALSE,
               mem0 |-> memory_cache, files0 |-> cache_files]
    /\ tiers = <<>>
    /\ requested = NoRequests
    /\ first_page = None
    /\ total_pages = 0
    /\ nodes = <<>>
    /\ tasks = [p \in {} |-> ""]
    /\ results = [p \in {} |-> None]
    /\ i = 0
    /\ json_obj = EmptyDict
    /\ fetch_all_end = ""
    /\ outcome = ""
    /\ ret = NoRet
    /\ raised = ""
    /\ prev = NoPrev
    /\ lookup = NoLookup
    /\ fetched = [a \in {} |-> NoRet]
    /\ dirs = [p \in Paths |-> EmptyDir]
    /\ cnr_info_cache = [p \in {} |-> None]
    /\ read = NoRead
    /\ first_result = [p \in Paths |-> NoRet]
    /\ first_identity = [p \in Paths |-> NoRet]
    /\ env = GitLinux
    /\ version_cache = NoPair
    /\ first_pair = NoPair
    /\ seen_env = env
    /\ cnr_id_files = [p \in Paths |-> NoFile]
    /\ id_call = NoIdCall
    /\ first_written = [p \in Paths |-> NoRet]
    /\ threads = NoThreads
    /\ last_writer = [persisted |-> 0, memory |-> 0]

ResetFetch ==
    /\ total_pages' = 0
    /\ nodes' = <<>>
    /\ tasks' = [p \in {} |-> ""]
    /\ results' = [p \in {} |-> None]
    /\ i' = 0

\* lines 133-149: the call, up to the return of the cache branch or the start of the live fetch.
GetCnrData(cache_mode, dont_wait) ==
    /\ pc \in {"idle", "returned"}
    /\ LET lk == tier_lookup(memory_cache, cache_files, cache_mode, dont_wait)
       IN  /\ memory_cache' = lk.mem
           /\ tiers' = lk.tiers
           /\ outcome' = lk.outcome
           /\ ret' = lk.ret
           /\ pc' = IF lk.outcome = "fetch" THEN "fetch_first" ELSE "returned"
    /\ call' = [cache_mode |-> cache_mode, dont_wait |-> dont_wait,
                mem0 |-> memory_cache, files0 |-> cache_files]
    /\ prev' = IF pc = "returned"
               THEN [valid |-> TRUE, cache_mode |-> call.cache_mode,
                     outcome |-> outcome, ret |-> ret,
                     page1_failed |-> (requested[1] = 1 /\ Falsy(first_page)),
                     mem0 |-> call.mem0, files0 |-> call.files0]
               ELSE NoPrev
    /\ requested' = NoRequests
    /\ first_page' = None
    /\ json_obj' = EmptyDict
    /\ fetch_all_end' = ""
    /\ raised' = ""
    /\ ResetFetch
    /\ IF tier_lookup(memory_cache, cache_files, cache_mode, dont_wait).outcome = "fetch"
       THEN /\ version_cache' = get_version_and_form_factor(version_cache, env)
            /\ first_pair' = IF first_pair = NoPair THEN version_cache' ELSE first_pair
            /\ seen_env' = env
       ELSE UNCHANGED <<version_cache, first_pair, seen_env>>
    /\ UNCHANGED <<cache_files, lookup, fetched, local_vars, env, id_vars, race_vars>>

\* A faulty variant of FetchFailed: the handler lets the exception through.
FetchFailed_reraises(how) ==
    /\ fetch_all_end' = how
    /\ outcome' = "fetch_failed"
    /\ ret' = NoRet
    /\ raised' = how
    /\ pc' = "returned"

\* lines 157-159: the handler of the live fetch.
FetchFailed(how) ==
    /\ fetch_all_end' = how
    /\ outcome' = "fetch_failed"
    /\ ret' = RetEmptyDict
    /\ raised' = ""
    /\ pc' = "returned"

\* lines 95-106: page 1, fetched by the caller itself, and the submission of the others.
\* The pair of line 152 only fills the query string of the GETs; any answer is possible
\* whatever it is.
FetchFirstPageOf(counts) ==
    /\ pc = "fetch_first"
    /\ tiers' = Append(tiers, "network")
    /\ requested' = [requested EXCEPT ![1] = @ + 1]
    /\ \E n \in counts : \E response \in PageResponses(1, n) :
         /\ first_page' = fetch_page(response)
         /\ IF Falsy(first_page')
            THEN FetchFailed("raised: Failed to fetch first page") /\ UNCHANGED fetch_vars
            ELSE IF "totalPages" \notin DOMAIN first_page' \/ "nodes" \notin DOMAIN first_page'
            THEN FetchFailed("raised: KeyError") /\ UNCHANGED fetch_vars
            ELSE /\ total_pages' = first_page'.totalPages
                 /\ nodes' = first_page'.nodes
                 /\ tasks' = [p \in 2..first_page'.totalPages |-> "queued"]
                 /\ results' = [p \in 2..first_page'.totalPages |-> None]
                 /\ i' = 2
                 /\ pc' = IF first_page'.totalPages > 1 THEN "collect" ELSE "merged"
                 /\ UNCHANGED <<fetch_all_end, outcome, ret, raised>>
    /\ UNCHANGED <<memory_cache, cache_files, call, json_obj, prev, lookup, fetched, local_vars, env_vars,
                   id_vars, race_vars>>

\* A faulty variant of FetchFirstPage: an unavailable page 1 is tolerated like any other
\* page, and fetch_all goes on with an empty listing instead of raising.
FetchFirstPage_tolerant ==
    /\ pc = "fetch_first"
    /\ tiers' = Append(tiers, "network")
    /\ requested' = [requested EXCEPT ![1] = @ + 1]
    /\ \E n \in 0..MaxPages : \E response \in PageResponses(1, n) :
         /\ first_page' = fetch_page(response)
         /\ IF Falsy(first_page')
            THEN /\ total_pages' = 0
                 /\ nodes' = <<>>
                 /\ pc' = "merged"
                 /\ UNCHANGED <<tasks, results, i, fetch_all_end, outcome, ret, raised>>
            ELSE IF "totalPages" \notin DOMAIN first_page' \/ "nodes" \notin DOMAIN first_page'
            THEN FetchFailed("raised: KeyError") /\ UNCHANGED fetch_vars
            ELSE /\ total_pages' = first_page'.totalPages
                 /\ nodes' = first_page'.nodes
                 /\ tasks' = [p \in 2..first_page'.totalPages |-> "queued"]
                 /\ results' = [p \in 2..first_page'.totalPages |-> None]
                 /\ i' = 2
                 /\ pc' = IF first_page'.totalPages > 1 THEN "collect" ELSE "merged"
                 /\ UNCHANGED <<fetch_all_end, outcome, ret, raised>>
    /\ UNCHANGED <<memory_cache, cache_files, call, json_obj, prev, lookup, fetched, local_vars, env_vars,
                   id_vars, race_vars>>

\* The registry reports any number of pages up to MaxPages.
FetchFirstPage == FetchFirstPageOf(0..MaxPages)

Running == {p \in DOMAIN tasks : tasks[p] = "running"}

Queued == {p \in DOMAIN tasks : tasks[p] = "queued"}

\* A faulty variant of WorkerStart: every submitted task gets a thread at once.
WorkerStart_unbounded ==
    /\ Queued # {}
    /\ LET p == CHOOSE q \in Queued : \A r \in Queued : q <= r
       IN  /\ tasks' = [tasks EXCEPT ![p] = "running"]
           /\ requested' = [requested EXCEPT ![p] = @ + 1]
    /\ UNCHANGED <<memory_cache, cache_files, pc, call, tiers, first_page, total_pages, nodes,
                   results, i, json_obj, fetch_all_end, outcome, ret, raised, prev, lookup,
                   fetched, local_vars, env_vars, id_vars, race_vars>>

\* line 104-105: a free worker of the pool takes the next queued task and sends its GET.
WorkerStart ==
    /\ Queued # {}
    /\ Cardinality(Running) < max_workers
    /\ LET p == CHOOSE q \in Queued : \A r \in Queued : q <= r
       IN  /\ tasks' = [tasks EXCEPT ![p] = "running"]
           /\ requested' = [requested EXCEPT ![p] = @ + 1]
    /\ UNCHANGED <<memory_cache, cache_files, pc, call, tiers, first_page, total_pages, nodes,
                   results, i, json_obj, fetch_all_end, outcome, ret, raised, prev, lookup,
                   fetched, local_vars, env_vars,
                   id_vars, race_vars>>

\* lines 76-82 in a worker: the GET of page p is answered, in any order among the pages.
WorkerFinishOf(p, responses) ==
    /\ p \in Running
    /\ \E response \in responses :
         results' = [results EXCEPT ![p] = fetch_page(response)]
    /\ tasks' = [tasks EXCEPT ![p] = "done"]
    /\ UNCHANGED <<memory_cache, cache_files, pc, call, tiers, requested, first_page,
                   total_pages, nodes, i, json_obj, fetch_all_end, outcome, ret, raised, prev,
                   lookup, fetched, local_vars, env_vars,
                   id_vars, race_vars>>

WorkerFinish(p) == WorkerFinishOf(p, PageResponses(p, total_pages))

\* A faulty variant of Collect: the results are merged as they complete, not in page order.
Collect_as_completed ==
    /\ pc = "collect"
    /\ \E p \in DOMAIN tasks :
         /\ tasks[p] = "done"
         /\ nodes' = extend_page(nodes, results[p])
         /\ tasks' = [tasks EXCEPT ![p] = "merged"]
    /\ i' = i + 1
    /\ pc' = IF i = total_pages THEN "merged" ELSE "collect"
    /\ UNCHANGED <<memory_cache, cache_files, call, tiers, requested, first_page, total_pages,
                   results, json_obj, fetch_all_end, outcome, ret, raised, prev, lookup,
                   fetched, local_vars, env_vars,
                   id_vars, race_vars>>

\* A faulty variant of Collect: the loop ends at the first page that failed.
Collect_stops_on_failure ==
    /\ pc = "collect"
    /\ i <= total_pages
    /\ tasks[i] = "done"
    /\ nodes' = extend_page(nodes, results[i])
    /\ i' = i + 1
    /\ pc' = IF i = total_pages \/ Falsy(results[i]) THEN "merged" ELSE "collect"
    /\ UNCHANGED <<memory_cache, cache_files, call, tiers, requested, first_page, total_pages,
                   tasks, results, json_obj, fetch_all_end, outcome, ret, raised, prev, lookup,
                   fetched, local_vars, env_vars, id_vars, race_vars>>

\* lines 107-112: the caller waits for future i, then merges it.
Collect ==
    /\ pc = "collect"
    /\ i <= total_pages
    /\ tasks[i] = "done"
    /\ nodes' = extend_page(nodes, results[i])
    /\ i' = i + 1
    /\ pc' = IF i = total_pages THEN "merged" ELSE "collect"
    /\ UNCHANGED <<memory_cache, cache_files, call, tiers, requested, first_page, total_pages,
                   tasks, results, json_obj, fetch_all_end, outcome, ret, raised, prev, lookup,
                   fetched, local_vars, env_vars,
                   id_vars, race_vars>>

\* lines 114-120 and 153: fetch_all normalizes and returns.
FetchAllReturn ==
    /\ pc = "merged"
    /\ nodes' = normalize(nodes)
    /\ json_obj' = [nodes |-> normalize(nodes)]
    /\ fetch_all_end' = "returned"
    /\ pc' = "save"
    /\ UNCHANGED <<memory_cache, cache_files, call, tiers, requested, first_page, total_pages,
                   tasks, results, i, outcome, ret, raised, prev, lookup, fetched, local_vars, env_vars,
                   id_vars, race_vars>>

\* A faulty variant of SaveToCache: the in-memory tier is filled before the listing is
\* persisted, so it keeps the listing when the write fails.
SaveToCache_after_store ==
    /\ pc = "save"
    /\ memory_cache' = mem_store(memory_cache, uri, json_obj)
    /\ \/ /\ cache_files' = save_to_cache(cache_files, uri, json_obj)
          /\ pc' = "store"
          /\ UNCHANGED <<fetch_all_end, outcome, ret, raised>>
       \/ /\ FetchFailed(fetch_all_end)
          /\ UNCHANGED cache_files
    /\ UNCHANGED <<call, tiers, requested, first_page, json_obj, prev, lookup,
                   fetched, local_vars, env_vars, id_vars, race_vars>>
    /\ UNCHANGED fetch_vars

\* line 154: the listing is persisted, or the write fails.
SaveToCache ==
    /\ pc = "save"
    /\ \/ /\ cache_files' = save_to_cache(cache_files, uri, json_obj)
          /\ pc' = "store"
          /\ UNCHANGED <<fetch_all_end, outcome, ret, raised>>
       \/ /\ FetchFailed(fetch_all_end)
          /\ UNCHANGED cache_files
    /\ UNCHANGED <<memory_cache, call, tiers, requested, first_page, json_obj, prev, lookup,
                   fetched, local_vars, env_vars,
                   id_vars, race_vars>>
    /\ UNCHANGED fetch_vars

\* lines 155-156
StoreMemory ==
    /\ pc = "store"
    /\ memory_cache' = mem_store(memory_cache, uri, json_obj)
    /\ ret' = RetList(json_obj.nodes)
    /\ outcome' = "fetched"
    /\ pc' = "returned"
    /\ UNCHANGED <<cache_files, call, tiers, requested, first_page, json_obj, fetch_all_end,
                   raised, prev, lookup, fetched, local_vars, env_vars,
                   id_vars, race_vars>>
    /\ UNCHANGED fetch_vars

\* The process ends and a new one starts: line 18 runs again, the persisted tier stays.
Restart ==
    /\ pc \in {"idle", "returned"}
    /\ memory_cache # [k \in {} |-> None]
    /\ memory_cache' = [k \in {} |-> None]
    /\ pc' = "idle"
    /\ call' = [cache_mode |-> FALSE, dont_wait |-> FALSE,
                mem0 |-> memory_cache', files0 |-> cache_files]
    /\ tiers' = <<>>
    /\ requested' = NoRequests
    /\ first_page' = None
    /\ json_obj' = EmptyDict
    /\ fetch_all_end' = ""
    /\ outcome' = ""
    /\ ret' = NoRet
    /\ raised' = ""
    /\ prev' = NoPrev
    /\ lookup' = NoLookup
    /\ fetched' = [a \in {} |-> NoRet]
    /\ cnr_info_cache' = [p \in {} |-> None]
    /\ read' = NoRead
    /\ first_result' = [p \in Paths |-> NoRet]
    /\ first_identity' = [p \in Paths |-> NoRet]
    /\ version_cache' = NoPair
    /\ first_pair' = NoPair
    /\ seen_env' = env
    /\ ResetFetch
    /\ UNCHANGED <<cache_files, dirs, env, id_vars, race_vars>>

Next ==
    \/ \E cache_mode \in BOOLEAN, dont_wait \in BOOLEAN : GetCnrData(cache_mode, dont_wait)
    \/ FetchFirstPage
    \/ WorkerStart
    \/ \E p \in Pages : WorkerFinish(p)
    \/ Collect
    \/ FetchAllReturn
    \/ SaveToCache
    \/ StoreMemory
    \/ Restart

Spec == Init /\ [][Next]_vars

\* A registry of PoolPages pages: page 2 may be unavailable, the others are served.
PoolResponses(p) ==
    { [kind |-> "http", status_code |-> 200,
       body |-> [nodes |-> PageNodes(p), totalPages |-> PoolPages]] }
    \cup (IF p = 2 THEN { [kind |-> "exception", status_code |-> 0, body |-> Garbage] } ELSE {})

\* The refreshing call's fetch_all on a registry of PoolPages pages, up to its return.
NextPool ==
    \/ GetCnrData(FALSE, FALSE)
    \/ FetchFirstPageOf({PoolPages})
    \/ WorkerStart
    \/ \E p \in 2..PoolPages : WorkerFinishOf(p, PoolResponses(p))
    \/ Collect
    \/ FetchAllReturn

InitPool == Init /\ cache_files = [p \in {} |-> None]

SpecPool == InitPool /\ [][NextPool]_vars

-----------------------------------------------------------------------------
(* Two threads that call get_cnr_data(cache_mode=False) at the same time *)

\* Page 1's entries followed by those of the served pages among 2..p, in page order.
RECURSIVE MergedUpTo(_, _)
MergedUpTo(served, p) ==
    IF p = 0 THEN <<>>
    ELSE MergedUpTo(served, p - 1) \o (IF p = 1 \/ p \in served THEN PageNodes(p) ELSE <<>>)

\* lines 84-120 as a whole: the listings fetch_all can return.
FetchAllResults ==
    { [nodes |-> normalize(MergedUpTo(served, MaxPages))] : served \in SUBSET (2..MaxPages) }

\* Everything a thread of the race leaves alone.
race_frame == <<pc, call, tiers, requested, first_page, total_pages, nodes, tasks, results, i,
                json_obj, fetch_all_end, outcome, ret, raised, prev, lookup, fetched,
                local_vars, env, id_vars>>

\* lines 133-152: with cache_mode=False the cache branch is skipped.
ThreadCall(t) ==
    /\ threads[t].pc = "idle"
    /\ threads' = [threads EXCEPT ![t].pc = "fetch"]
    /\ version_cache' = get_version_and_form_factor(version_cache, env)
    /\ first_pair' = IF first_pair = NoPair THEN version_cache' ELSE first_pair
    /\ seen_env' = env
    /\ UNCHANGED <<memory_cache, cache_files, last_writer>>
    /\ UNCHANGED race_frame

\* line 153: the thread's fetch_all returns a listing, or raises and the call returns {}.
ThreadFetchAll(t) ==
    /\ threads[t].pc = "fetch"
    /\ \/ \E listing \in FetchAllResults :
            threads' = [threads EXCEPT ![t] = [pc |-> "save", json_obj |-> listing]]
       \/ threads' = [threads EXCEPT ![t].pc = "failed"]
    /\ UNCHANGED <<memory_cache, cache_files, last_writer, version_cache, first_pair, seen_env>>
    /\ UNCHANGED race_frame

\* line 154
ThreadSave(t) ==
    /\ threads[t].pc = "save"
    /\ \/ /\ cache_files' = save_to_cache(cache_files, uri, threads[t].json_obj)
          /\ last_writer' = [last_writer EXCEPT !.persisted = t]
          /\ threads' = [threads EXCEPT ![t].pc = "store"]
       \/ /\ threads' = [threads EXCEPT ![t].pc = "failed"]
          /\ UNCHANGED <<cache_files, last_writer>>
    /\ UNCHANGED <<memory_cache, version_cache, first_pair, seen_env>>
    /\ UNCHANGED race_frame

\* A faulty variant of ThreadStore: the entry of another caller is kept.
ThreadStore_keeps_entry(t) ==
    /\ threads[t].pc = "store"
    /\ memory_cache' = IF uri \in DOMAIN memory_cache THEN memory_cache
                       ELSE mem_store(memory_cache, uri, threads[t].json_obj)
    /\ last_writer' = [last_writer EXCEPT !.memory = t]
    /\ threads' = [threads EXCEPT ![t].pc = "returned"]
    /\ UNCHANGED <<cache_files, version_cache, first_pair, seen_env>>
    /\ UNCHANGED race_frame

\* lines 155-156
ThreadStore(t) ==
    /\ threads[t].pc = "store"
    /\ memory_cache' = mem_store(memory_cache, uri, threads[t].json_obj)
    /\ last_writer' = [last_writer EXCEPT !.memory = t]
    /\ threads' = [threads EXCEPT ![t].pc = "returned"]
    /\ UNCHANGED <<cache_files, version_cache, first_pair, seen_env>>
    /\ UNCHANGED race_frame

NextRace ==
    \/ \E t \in Threads : ThreadCall(t)
    \/ \E t \in Threads : ThreadFetchAll(t)
    \/ \E t \in Threads : ThreadSave(t)
    \/ \E t \in Threads : ThreadStore(t)

SpecRace == Init /\ [][NextRace]_vars

-----------------------------------------------------------------------------
(* The point lookups: install_node, all_versions_of_node *)

NoVersion == [is_none |-> TRUE, s |-> <<>>]

Version(s) == [is_none |-> FALSE, s |-> s]

NodeIds == { <<"a">>, <<"a", "_", "b">> }

Versions == { NoVersion, Version(<<"b", "_", "latest">>) }

RetNodeVersion(r) == [t |-> "NodeVersion", v |-> <<r>>]

RetJson(d) == [t |-> "json", v |-> <<d>>]

\* The complete install payload the registry holds for (node_id, version).
FullPayload(node_id, version) ==
    [id |-> node_id,
     version |-> IF version.is_none THEN <<"2">> ELSE version.s,
     changelog |-> "fixes",
     dependencies |-> <<"numpy">>,
     deprecated |-> TRUE,
     downloadUrl |-> "https://cdn.comfy.org/pack.zip"]

OptionalFields == {"changelog", "dependencies", "deprecated", "downloadUrl"}

\* The field sets a payload may lack: none, a mandatory field, changelog, every optional one.
MissingFields == { {}, {"id"}, {"version"}, {"changelog"}, OptionalFields }

Without(d, fields) == [k \in DOMAIN d \ fields |-> d[k]]

InstallPayloads(node_id, version) ==
    { Without(FullPayload(node_id, version), m) : m \in MissingFields }

VersionsPayloads(node_id) ==
    { <<>>, << [id |-> node_id, version |-> <<"1">>], [id |-> node_id, version |-> <<"2">>] >> }

\* What one GET of a point lookup can come to.
LookupResponses(payloads) ==
    { [kind |-> "exception", status_code |-> 0, parses |-> FALSE, json |-> <<>>] }
    \cup { [kind |-> "http", status_code |-> c, parses |-> FALSE, json |-> <<>>] :
                c \in {200, 404, 500} }
    \cup { [kind |-> "http", status_code |-> 200, parses |-> TRUE, json |-> <<d>>] :
                d \in payloads }

\* dict.get(key, default), lines 181-198
dict_get(d, key, default) == IF key \in DOMAIN d THEN d[key] ELSE default

\* A faulty variant of map_node_version: id and version are read with a default, like the others.
map_node_version_lenient(api_node_version) ==
    [raised |-> "",
     value |-> << [changelog |-> dict_get(api_node_version, "changelog", ""),
                   dependencies |-> dict_get(api_node_version, "dependencies", <<>>),
                   deprecated |-> dict_get(api_node_version, "deprecated", FALSE),
                   id |-> dict_get(api_node_version, "id", <<>>),
                   version |-> dict_get(api_node_version, "version", <<>>),
                   download_url |-> dict_get(api_node_version, "downloadUrl", "")] >>]

\* lines 170-199; a subscript of an absent key raises KeyError.
map_node_version(api_node_version) ==
    IF "id" \notin DOMAIN api_node_version \/ "version" \notin DOMAIN api_node_version
    THEN [raised |-> "KeyError", value |-> <<>>]
    ELSE [raised |-> "",
          value |-> << [changelog |-> dict_get(api_node_version, "changelog", ""),
                        dependencies |-> dict_get(api_node_version, "dependencies", <<>>),
                        deprecated |-> dict_get(api_node_version, "deprecated", FALSE),
                        id |-> api_node_version.id,
                        version |-> api_node_version.version,
                        download_url |-> dict_get(api_node_version, "downloadUrl", "")] >>]

\* line 212
install_key(node_id, version) ==
    <<"install_">> \o node_id \o <<"_">>
        \o (IF version.is_none \/ version.s = <<>> THEN <<"latest">> ELSE version.s)

\* lines 216-219
install_url(node_id, version) ==
    IF version.is_none
    THEN base_url \o <<"/nodes/">> \o node_id \o <<"/install">>
    ELSE base_url \o <<"/nodes/">> \o node_id \o <<"/install?version=">> \o version.s

\* line 240
versions_key(node_id) == <<"versions_">> \o node_id

\* lines 213, 241
cache_hit(mem, key) == key \in DOMAIN mem

\* lines 212-228: the call's effect, given the answer its GET would get.
install_node(mem, node_id, version, response) ==
    LET cache_key == install_key(node_id, version) IN
    IF cache_hit(mem, cache_key)
    THEN [mem |-> mem, ret |-> RetNodeVersion(mem[cache_key]), raised |-> "", requests |-> 0]
    ELSE IF response.kind = "exception"
    THEN [mem |-> mem, ret |-> NoRet, raised |-> "ConnectionError", requests |-> 1]
    ELSE IF response.status_code = 200
    THEN IF ~response.parses
         THEN [mem |-> mem, ret |-> NoRet, raised |-> "JSONDecodeError", requests |-> 1]
         ELSE LET result == map_node_version(response.json[1]) IN
              IF result.raised # ""
              THEN [mem |-> mem, ret |-> NoRet, raised |-> result.raised, requests |-> 1]
              ELSE [mem |-> mem_store(mem, cache_key, result.value[1]),
                    ret |-> RetNodeVersion(result.value[1]), raised |-> "", requests |-> 1]
    ELSE [mem |-> mem, ret |-> RetNone, raised |-> "", requests |-> 1]

\* A faulty variant of all_versions_of_node: the answer is memoized whatever its status.
all_versions_of_node_memoizes_failure(mem, node_id, response) ==
    LET cache_key == versions_key(node_id) IN
    IF cache_hit(mem, cache_key)
    THEN [mem |-> mem, ret |-> RetJson(mem[cache_key]), raised |-> "", requests |-> 0]
    ELSE IF response.kind = "exception"
    THEN [mem |-> mem, ret |-> NoRet, raised |-> "ConnectionError", requests |-> 1]
    ELSE IF response.status_code = 200
    THEN IF ~response.parses
         THEN [mem |-> mem, ret |-> NoRet, raised |-> "JSONDecodeError", requests |-> 1]
         ELSE [mem |-> mem_store(mem, cache_key, response.json[1]),
               ret |-> RetJson(response.json[1]), raised |-> "", requests |-> 1]
    ELSE [mem |-> mem_store(mem, cache_key, <<>>), ret |-> RetNone, raised |-> "",
          requests |-> 1]

\* lines 240-250
all_versions_of_node(mem, node_id, response) ==
    LET cache_key == versions_key(node_id) IN
    IF cache_hit(mem, cache_key)
    THEN [mem |-> mem, ret |-> RetJson(mem[cache_key]), raised |-> "", requests |-> 0]
    ELSE IF response.kind = "exception"
    THEN [mem |-> mem, ret |-> NoRet, raised |-> "ConnectionError", requests |-> 1]
    ELSE IF response.status_code = 200
    THEN IF ~response.parses
         THEN [mem |-> mem, ret |-> NoRet, raised |-> "JSONDecodeError", requests |-> 1]
         ELSE [mem |-> mem_store(mem, cache_key, response.json[1]),
               ret |-> RetJson(response.json[1]), raised |-> "", requests |-> 1]
    ELSE [mem |-> mem, ret |-> RetNone, raised |-> "", requests |-> 1]

\* What a lookup saw of the answer to its GET: not the payload, only the keys of an
\* install payload.
Met(op, response) ==
    [kind |-> response.kind, status_code |-> response.status_code, parses |-> response.parses,
     keys |-> IF op = "install_node" /\ response.parses THEN DOMAIN response.json[1] ELSE {}]

LookupArgs(op, node_id, version) == [op |-> op, node_id |-> node_id, version |-> version]

\* The first result a 200 answer gave for these arguments is kept.
Remember(args, r, response) ==
    IF r.requests = 1 /\ r.raised = "" /\ response.kind = "http" /\ response.status_code = 200
       /\ args \notin DOMAIN fetched
    THEN [a \in DOMAIN fetched \cup {args} |-> IF a = args THEN r.ret ELSE fetched[a]]
    ELSE fetched

\* What the last lookup was and met; response is what its GET came to, if it sent one.
LookupRecord(op, node_id, version, key, r, response) ==
    [op |-> op, node_id |-> node_id, version |-> version, key |-> key,
     mem0 |-> memory_cache, requests |-> r.requests,
     response |-> IF r.requests = 0 THEN NoResponse ELSE Met(op, response),
     known |-> LookupArgs(op, node_id, version) \in DOMAIN fetched,
     again |-> /\ lookup.op = op /\ lookup.node_id = node_id /\ lookup.version = version
               /\ lookup.requests = 1 /\ lookup.response.kind = "http"
               /\ lookup.response.status_code # 200]

InstallNode(node_id, version) ==
    \E response \in LookupResponses(InstallPayloads(node_id, version)) :
        LET r == install_node(memory_cache, node_id, version, response) IN
        /\ memory_cache' = r.mem
        /\ ret' = r.ret
        /\ raised' = r.raised
        /\ lookup' = LookupRecord("install_node", node_id, version,
                                  install_key(node_id, version), r, response)
        /\ fetched' = Remember(LookupArgs("install_node", node_id, version), r, response)
        /\ UNCHANGED lookup_frame

AllVersionsOfNode(node_id) ==
    \E response \in LookupResponses(VersionsPayloads(node_id)) :
        LET r == all_versions_of_node(memory_cache, node_id, response) IN
        /\ memory_cache' = r.mem
        /\ ret' = r.ret
        /\ raised' = r.raised
        /\ lookup' = LookupRecord("all_versions_of_node", node_id, NoVersion,
                                  versions_key(node_id), r, response)
        /\ fetched' = Remember(LookupArgs("all_versions_of_node", node_id, NoVersion), r, response)
        /\ UNCHANGED lookup_frame

\* fetch_page called on its own: lines 62-82.
FetchPage(page) ==
    \E response \in PageResponses(page, MaxPages) :
        /\ ret' = (IF fetch_page(response) = None THEN RetNone
                   ELSE RetJson(fetch_page(response)))
        /\ raised' = ""
        /\ lookup' = [op |-> "fetch_page", node_id |-> <<>>, version |-> NoVersion,
                      key |-> <<>>, mem0 |-> memory_cache, requests |-> 1,
                      response |-> [kind |-> response.kind,
                                    status_code |-> response.status_code,
                                    parses |-> response.body # Garbage, keys |-> {}],
                      known |-> FALSE, again |-> FALSE]
        /\ UNCHANGED <<memory_cache, fetched>>
        /\ UNCHANGED lookup_frame

NextLookup ==
    \/ \E node_id \in NodeIds, version \in Versions : InstallNode(node_id, version)
    \/ \E node_id \in NodeIds : AllVersionsOfNode(node_id)
    \/ \E page \in Pages : FetchPage(page)

InitLookup == Init /\ cache_files = [p \in {} |-> None]

SpecLookup == InitLookup /\ [][NextLookup]_vars

-----------------------------------------------------------------------------
(* The local metadata reader: read_cnr_info *)

IsSpace(t) == t \in {" ", "\n", "\t"}

RECURSIVE lstrip(_)
lstrip(s) == IF s # <<>> /\ IsSpace(Head(s)) THEN lstrip(Tail(s)) ELSE s

RECURSIVE rstrip(_)
rstrip(s) == IF s # <<>> /\ IsSpace(s[Len(s)]) THEN rstrip(SubSeq(s, 1, Len(s) - 1)) ELSE s

\* str.strip()
strip(s) == rstrip(lstrip(s))

\* str.lower()
lower(s) == [k \in DOMAIN s |-> lower_token(s[k])]

\* str(manager_util.StrictVersion(v)): the version in its three-component form.
StrictVersion(v) == [k \in 1..3 |-> IF k <= Len(v) THEN v[k] ELSE 0]

\* A faulty variant of read_files: only the descriptor is required, not the tracking marker.
read_files_ignores_tracking(dir) ==
    IF ~dir.toml.exists \/ ~dir.toml.content.parses
    THEN [ret |-> RetNone, cache |-> FALSE]
    ELSE LET project == dict_get(dir.toml.content.data, "project", EmptyDict)
         IN  IF "name" \notin DOMAIN project \/ "version" \notin DOMAIN project
             THEN [ret |-> RetNone, cache |-> FALSE]
             ELSE [ret |-> RetInfo([id |-> lower(strip(project.name)),
                                    version |-> StrictVersion(project.version),
                                    url |-> NoRepository]),
                   cache |-> lower(strip(project.name)) # <<>>]

\* lines 265-296: what the files of a directory give, [ret, cache] with cache TRUE when
\* line 291 stores the result.  An exception of lines 272-280 ends in line 296.
read_files(dir) ==
    IF ~dir.toml.exists \/ ~dir.tracking
    THEN [ret |-> RetNone, cache |-> FALSE]
    ELSE IF ~dir.toml.content.parses
    THEN [ret |-> RetNone, cache |-> FALSE]
    ELSE LET project == dict_get(dir.toml.content.data, "project", EmptyDict)
         IN  IF "name" \notin DOMAIN project \/ "version" \notin DOMAIN project
             THEN [ret |-> RetNone, cache |-> FALSE]
             ELSE LET name == lower(strip(project.name))
                      version == StrictVersion(project.version)
                      urls == dict_get(project, "urls", EmptyDict)
                      repository == IF "Repository" \in DOMAIN urls
                                    THEN Repository(urls.Repository)
                                    ELSE NoRepository
                  IN  IF name # <<>> /\ version # <<>>
                      THEN [ret |-> RetInfo([id |-> name, version |-> version,
                                             url |-> repository]),
                            cache |-> TRUE]
                      ELSE [ret |-> RetNone, cache |-> FALSE]

\* A faulty variant of read_cnr_info: the files are looked at before the cache.
read_cnr_info_files_first(cache, ds, fullpath) ==
    LET r == read_files(ds[fullpath])
    IN  IF r.cache
        THEN [ret |-> r.ret, cache |-> mem_store(cache, fullpath, r.ret)]
        ELSE IF fullpath \in DOMAIN cache
        THEN [ret |-> cache[fullpath], cache |-> cache]
        ELSE [ret |-> r.ret, cache |-> cache]

\* lines 252-296
read_cnr_info(cache, ds, fullpath) ==
    IF fullpath \in DOMAIN cache
    THEN [ret |-> cache[fullpath], cache |-> cache]
    ELSE LET r == read_files(ds[fullpath])
         IN  [ret |-> r.ret,
              cache |-> IF r.cache THEN mem_store(cache, fullpath, r.ret) ELSE cache]

\* Everything the local reader and the filesystem leave alone.
local_frame == <<memory_cache, cache_files, pc, call, tiers, requested, first_page,
                 total_pages, nodes, tasks, results, i, json_obj, fetch_all_end, outcome,
                 prev, lookup, fetched, env_vars, id_vars, race_vars>>

ReadCnrInfo(fullpath) ==
    /\ LET r == read_cnr_info(cnr_info_cache, dirs, fullpath)
       IN  /\ cnr_info_cache' = r.cache
           /\ ret' = r.ret
           /\ first_result' = IF first_result[fullpath] = NoRet
                              THEN [first_result EXCEPT ![fullpath] = r.ret]
                              ELSE first_result
           /\ first_identity' = IF first_identity[fullpath] = NoRet /\ r.ret.t = "dict"
                                THEN [first_identity EXCEPT ![fullpath] = r.ret]
                                ELSE first_identity
    /\ read' = [valid |-> TRUE, path |-> fullpath, tracking |-> dirs[fullpath].tracking,
                found |-> read_files(dirs[fullpath]).ret,
                first |-> first_result[fullpath], identity |-> first_identity[fullpath]]
    /\ raised' = ""
    /\ UNCHANGED dirs
    /\ UNCHANGED local_frame

\* The node pack's descriptor is written, rewritten or removed (install, update, removal).
WriteDescriptor(fullpath, file) ==
    /\ dirs[fullpath].toml # file
    /\ dirs' = [dirs EXCEPT ![fullpath].toml = file]
    /\ UNCHANGED <<cnr_info_cache, read, first_result, first_identity, ret, raised>>
    /\ UNCHANGED local_frame

\* The tracking marker of the node pack is created or removed.
SetTracking(fullpath, present) ==
    /\ dirs[fullpath].tracking # present
    /\ dirs' = [dirs EXCEPT ![fullpath].tracking = present]
    /\ UNCHANGED <<cnr_info_cache, read, first_result, first_identity, ret, raised>>
    /\ UNCHANGED local_frame

NextLocal ==
    \/ \E fullpath \in Paths : ReadCnrInfo(fullpath)
    \/ \E fullpath \in Paths, d \in Descriptors : WriteDescriptor(fullpath, File(d))
    \/ \E fullpath \in Paths : WriteDescriptor(fullpath, NoFile)
    \/ \E fullpath \in Paths, present \in BOOLEAN : SetTracking(fullpath, present)

InitLocal == Init /\ cache_files = [p \in {} |-> None]

SpecLocal == InitLocal /\ [][NextLocal]_vars

-----------------------------------------------------------------------------
(* The companion identifier files: generate_cnr_id, read_cnr_id *)

\* How the open-and-write of lines 309-310 can go.
WriteOutcomes == { "written", "open fails", "write fails" }

\* A faulty variant of generate_cnr_id: the file is written whether or not it exists.
generate_cnr_id_overwrites(files, fullpath, cnr_id, how) ==
    IF how = "written"
    THEN [files |-> [files EXCEPT ![fullpath] = File(cnr_id)], ret |-> RetInt(Len(cnr_id)),
          how |-> how]
    ELSE [files |-> files, ret |-> RetNone, how |-> how]

\* lines 298-312.  open(path, "w") creates the file, so a write that fails after the open
\* leaves an empty file behind; the bare except of line 311 ends every failure in a print.
generate_cnr_id(files, fullpath, cnr_id, how) ==
    IF files[fullpath].exists
    THEN [files |-> files, ret |-> RetNone, how |-> "exists"]
    ELSE IF how = "written"
    THEN [files |-> [files EXCEPT ![fullpath] = File(cnr_id)], ret |-> RetInt(Len(cnr_id)),
          how |-> how]
    ELSE IF how = "write fails"
    THEN [files |-> [files EXCEPT ![fullpath] = File(<<>>)], ret |-> RetNone, how |-> how]
    ELSE [files |-> files, ret |-> RetNone, how |-> how]

\* lines 314-332
read_cnr_id(files, fullpath, readable) ==
    IF ~files[fullpath].exists
    THEN [ret |-> RetNone, how |-> "missing"]
    ELSE IF ~readable
    THEN [ret |-> RetNone, how |-> "unreadable"]
    ELSE [ret |-> RetStr(strip(files[fullpath].content)), how |-> "read"]

\* Everything the identifier files' operations leave alone.
id_frame == <<memory_cache, cache_files, pc, call, tiers, requested, first_page,
              total_pages, nodes, tasks, results, i, json_obj, fetch_all_end, outcome,
              prev, lookup, fetched, local_vars, env_vars, race_vars>>

GenerateCnrId(fullpath, cnr_id) ==
    /\ \E outcome_of_write \in WriteOutcomes :
         LET r == generate_cnr_id(cnr_id_files, fullpath, cnr_id, outcome_of_write)
         IN  /\ cnr_id_files' = r.files
             /\ ret' = r.ret
             /\ id_call' = [op |-> "generate_cnr_id", path |-> fullpath,
                            before |-> cnr_id_files[fullpath], how |-> r.how]
             /\ first_written' = IF r.how = "written" /\ first_written[fullpath] = NoRet
                                 THEN [first_written EXCEPT ![fullpath] = RetStr(cnr_id)]
                                 ELSE first_written
    /\ raised' = ""
    /\ UNCHANGED id_frame

ReadCnrId(fullpath) ==
    /\ \E readable \in BOOLEAN :
         LET r == read_cnr_id(cnr_id_files, fullpath, readable)
         IN  /\ ret' = r.ret
             /\ id_call' = [op |-> "read_cnr_id", path |-> fullpath,
                            before |-> cnr_id_files[fullpath], how |-> r.how]
    /\ raised' = ""
    /\ UNCHANGED <<cnr_id_files, first_written>>
    /\ UNCHANGED id_frame

NextId ==
    \/ \E fullpath \in Paths, cnr_id \in CnrIds : GenerateCnrId(fullpath, cnr_id)
    \/ \E fullpath \in Paths : ReadCnrId(fullpath)

InitId == Init /\ cache_files = [p \in {} |-> None]

SpecId == InitId /\ [][NextId]_vars

-----------------------------------------------------------------------------
(* Properties of the listing flow: get_cnr_data, fetch_all, fetch_page *)

Returned == pc = "returned"

ColdCache(c) ==
    /\ uri \notin DOMAIN c.mem0
    /\ ~path_exists(c.files0, get_cache_path(uri))

IssuedNoRequest == requested = NoRequests /\ "network" \notin {tiers[k] : k \in DOMAIN tiers}

\* What page p contributed to the merge: nothing when its fetch failed.
PageEntries(result) ==
    IF result = None THEN <<>>
    ELSE IF "nodes" \in DOMAIN result THEN result.nodes ELSE <<>>

\* Page 1's entries followed by those of pages 2..p in ascending page number, as they arrived.
RECURSIVE ArrivedUpTo(_)
ArrivedUpTo(p) ==
    IF p <= 1 THEN first_page.nodes ELSE ArrivedUpTo(p - 1) \o PageEntries(results[p])

FetchAllReturned == fetch_all_end = "returned"

\* C1: get_cnr_data(cache_mode=True, dont_wait=True) called with no in-memory entry and no
\* persisted file for the listing returns an empty result, issues no network request and
\* leaves both tiers empty.
C1_ColdNoWaitReturnsEmpty ==
    (Returned /\ call.cache_mode /\ call.dont_wait /\ ColdCache(call))
        => /\ ret = RetEmptyDict
           /\ raised = ""
           /\ IssuedNoRequest
           /\ uri \notin DOMAIN memory_cache
           /\ ~path_exists(cache_files, get_cache_path(uri))

C1_Witness ==
    /\ Returned /\ call.cache_mode /\ call.dont_wait /\ ColdCache(call)
    /\ outcome = "degraded"

\* C2: get_cnr_data(cache_mode=False) performs a live fetch in every cache state and for
\* either dont_wait; when the fetch succeeds the fetched listing is in both tiers, and the
\* next get_cnr_data(cache_mode=True) returns exactly that listing without a request.
C2_RefreshFetchesAndFillsBothTiers ==
    /\ (pc # "idle" /\ ~call.cache_mode)
           => /\ outcome \in {"fetch", "fetch_failed", "fetched"}
              /\ (Returned => requested[1] = 1 /\ tiers = <<"network">>)
    /\ (Returned /\ ~call.cache_mode /\ outcome = "fetched")
           => /\ FetchAllReturned
              /\ uri \in DOMAIN memory_cache /\ memory_cache[uri] = json_obj
              /\ path_exists(cache_files, get_cache_path(uri))
              /\ json_load(cache_files[get_cache_path(uri)]) = json_obj
              /\ ret = RetList(json_obj.nodes)
    /\ (Returned /\ call.cache_mode /\ prev.valid /\ ~prev.cache_mode /\ prev.outcome = "fetched")
           => /\ ret = prev.ret
              /\ IssuedNoRequest

C2_Witness ==
    /\ Returned /\ call.cache_mode /\ prev.valid /\ ~prev.cache_mode /\ prev.outcome = "fetched"
    /\ Len(prev.ret.v) > 2
    /\ path_exists(call.files0, get_cache_path(uri))

IsPrefix(s, t) == Len(s) <= Len(t) /\ \A k \in DOMAIN s : s[k] = t[k]

\* C3: a cache_mode=True call consults memory, then the persisted tier, then the network:
\* a memory hit returns without reading the persisted tier or the network; a memory miss
\* with a persisted hit loads the entry, stores it in memory and returns it without a
\* request; a fetch starts only after both tiers missed and dont_wait is false.
C3_TierOrder ==
    (pc # "idle" /\ call.cache_mode) =>
        /\ IsPrefix(tiers, <<"memory", "persisted", "network">>)
        /\ (Returned /\ uri \in DOMAIN call.mem0)
               => /\ tiers = <<"memory">>
                  /\ ret = RetList(call.mem0[uri].nodes)
                  /\ requested = NoRequests
                  /\ memory_cache = call.mem0 /\ cache_files = call.files0
        /\ (Returned /\ uri \notin DOMAIN call.mem0
                     /\ path_exists(call.files0, get_cache_path(uri)))
               => /\ tiers = <<"memory", "persisted">>
                  /\ ret = RetList(call.files0[get_cache_path(uri)].nodes)
                  /\ uri \in DOMAIN memory_cache
                  /\ memory_cache[uri] = call.files0[get_cache_path(uri)]
                  /\ requested = NoRequests
                  /\ cache_files = call.files0
        /\ (requested # NoRequests \/ pc \in {"fetch_first", "collect", "merged", "save", "store"})
               => /\ ColdCache(call)
                  /\ ~call.dont_wait
                  /\ IsPrefix(<<"memory", "persisted">>, tiers)

C3_Witness ==
    /\ Returned /\ call.cache_mode
    /\ uri \notin DOMAIN call.mem0
    /\ path_exists(call.files0, get_cache_path(uri))
    /\ outcome = "persisted_hit"
    /\ Len(ret.v) > 2

\* C4: when get_cnr_data reaches the live fetch and the fetch fails (page 1 unavailable, a
\* malformed page-1 body, or a failure while persisting), it returns an empty result and
\* lets no exception through.
C4_FetchFailureReturnsEmpty ==
    /\ (Returned /\ outcome = "fetch_failed") => (ret = RetEmptyDict /\ raised = "")
    /\ (Returned /\ requested[1] = 1 /\ outcome # "fetched") => outcome = "fetch_failed"
C4_Witness ==
    /\ Returned /\ outcome = "fetch_failed"
    /\ FetchAllReturned
    /\ ret = RetEmptyDict

\* C5: when page 1 succeeds and any subset of pages 2..N fails, fetch_all raises nothing
\* and returns page 1's entries followed by those of each successful page in ascending page
\* number, with none from a failed page, whatever the order in which the fetches completed.
C5_MergeInPageOrder ==
    /\ FetchAllReturned
           => json_obj.nodes = normalize(ArrivedUpTo(total_pages))
    /\ (pc \in {"collect", "merged"} \/ (Returned /\ DOMAIN tasks # {}))
           => fetch_all_end \in {"", "returned"}
    /\ (Returned /\ requested[1] = 1 /\ ~Falsy(first_page)
            /\ {"nodes", "totalPages"} \subseteq DOMAIN first_page)
           => FetchAllReturned

C5_Witness ==
    /\ FetchAllReturned
    /\ total_pages = MaxPages
    /\ results[2] = None
    /\ results[MaxPages] # None /\ "nodes" \in DOMAIN results[MaxPages]
    /\ Len(json_obj.nodes) = 4

\* C6: if the fetch of page 1 fails, fetch_all fails with an explicit error and no request
\* for any other page is ever issued.
C6_FirstPageFailureAborts ==
    (requested[1] = 1 /\ Falsy(first_page))
        => /\ fetch_all_end = "raised: Failed to fetch first page"
           /\ \A p \in Pages \ {1} : requested[p] = 0
           /\ DOMAIN tasks = {}

C6_Witness ==
    /\ requested[1] = 1 /\ first_page = None
    /\ fetch_all_end = "raised: Failed to fetch first page"
    /\ Returned

\* C7: in every collection fetch_all returns, an entry that arrived without latest_version
\* has it set to {version: "nightly"}, an entry that arrived with one keeps its value, and
\* so no entry lacks the field.
C7_LatestVersionNormalized ==
    FetchAllReturned =>
        LET arrived == ArrivedUpTo(total_pages)
            merged == json_obj.nodes
        IN  /\ Len(merged) = Len(arrived)
            /\ \A k \in DOMAIN merged :
                /\ "latest_version" \in DOMAIN merged[k]
                /\ "latest_version" \in DOMAIN arrived[k] => merged[k] = arrived[k]
                /\ "latest_version" \notin DOMAIN arrived[k]
                       => /\ merged[k].latest_version = [version |-> "nightly"]
                          /\ DOMAIN merged[k] = DOMAIN arrived[k] \cup {"latest_version"}
                          /\ \A f \in DOMAIN arrived[k] : merged[k][f] = arrived[k][f]

C7_Witness ==
    /\ FetchAllReturned
    /\ Len(json_obj.nodes) = 6
    /\ json_obj.nodes[5] = [id |-> 10 * MaxPages, latest_version |-> [version |-> "nightly"]]
    /\ json_obj.nodes[6] = [id |-> 10 * MaxPages + 1, latest_version |-> [version |-> "1.0.0"]]

-----------------------------------------------------------------------------
(* Properties of the point lookups *)

IsPointLookup == lookup.op \in {"install_node", "all_versions_of_node"}

SentRequest == lookup.requests = 1

Answered(code) ==
    SentRequest /\ lookup.response.kind = "http" /\ lookup.response.status_code = code

Non200 == SentRequest /\ lookup.response.kind = "http" /\ lookup.response.status_code # 200

TransportOrParseFailure ==
    /\ SentRequest
    /\ \/ lookup.response.kind = "exception"
       \/ Answered(200) /\ ~lookup.response.parses

\* C8: a transport or parse failure of the network GET is absorbed into an absent result
\* where it occurs and is never re-raised to the caller of fetch_page, install_node or
\* all_versions_of_node.
C8_TransportFailureAbsorbed ==
    (lookup.op \in {"fetch_page", "install_node", "all_versions_of_node"}
        /\ TransportOrParseFailure)
        => (raised = "" /\ ret = RetNone)

C10_RequiredFieldsAndDefaults ==
    (lookup.op = "install_node" /\ Answered(200) /\ lookup.response.parses) =>
        LET keys == lookup.response.keys
            full == FullPayload(lookup.node_id, lookup.version)
        IN  /\ ("id" \notin keys \/ "version" \notin keys)
                   => (raised = "KeyError" /\ ret = NoRet /\ memory_cache = lookup.mem0)
            /\ {"id", "version"} \subseteq keys
                   => /\ raised = ""
                      /\ ret.t = "NodeVersion"
                      /\ ret.v[1].id = full.id
                      /\ ret.v[1].version = full.version
                      /\ ret.v[1].changelog =
                             (IF "changelog" \in keys THEN full.changelog ELSE "")
                      /\ ret.v[1].dependencies =
                             (IF "dependencies" \in keys THEN full.dependencies ELSE <<>>)
                      /\ ret.v[1].deprecated =
                             (IF "deprecated" \in keys THEN full.deprecated ELSE FALSE)
                      /\ ret.v[1].download_url =
                             (IF "downloadUrl" \in keys THEN full.downloadUrl ELSE "")

C10_Witness ==
    /\ lookup.op = "install_node" /\ Answered(200) /\ lookup.response.parses
    /\ lookup.response.keys = {"id", "version"}
    /\ ret.t = "NodeVersion"
    /\ ret.v[1].changelog = "" /\ ret.v[1].dependencies = <<>>
    /\ ~ret.v[1].deprecated /\ ret.v[1].download_url = ""
    /\ lookup.key \in DOMAIN memory_cache

-----------------------------------------------------------------------------
(* The client fingerprint: get_version_and_form_factor as a caller's own call *)

\* Everything the fingerprint and the environment leave alone.
env_frame == <<memory_cache, cache_files, pc, call, tiers, requested, first_page,
               total_pages, nodes, tasks, results, i, json_obj, fetch_all_end, outcome,
               prev, lookup, fetched, local_vars, id_vars, race_vars>>

\* lines 21-60
GetVersionAndFormFactor ==
    /\ version_cache' = get_version_and_form_factor(version_cache, env)
    /\ first_pair' = IF first_pair = NoPair THEN version_cache' ELSE first_pair
    /\ seen_env' = env
    /\ ret' = RetPair(version_cache')
    /\ raised' = ""
    /\ UNCHANGED env
    /\ UNCHANGED env_frame

\* The desktop marker, the platform or the host application's version changes.
EnvChange(e) ==
    /\ e # env
    /\ env' = e
    /\ UNCHANGED <<version_cache, first_pair, seen_env, ret, raised>>
    /\ UNCHANGED env_frame

NextEnv ==
    \/ GetVersionAndFormFactor
    \/ \E e \in Envs : EnvChange(e)

InitEnv == Init /\ cache_files = [p \in {} |-> None]

SpecEnv == InitEnv /\ [][NextEnv]_vars

-----------------------------------------------------------------------------
(* The local metadata reader *)

ReadReturned == read.valid

\* The files of the directory as they are now, with the tracking marker added.
DescriptorGivesIdentity(fullpath) ==
    read_files([dirs[fullpath] EXCEPT !.tracking = TRUE]).cache

\* C11 as stated: a read_cnr_info call for a directory without the tracking marker returns
\* None, whatever calls and filesystem changes came before it.
C11_NoTrackingReturnsNone ==
    (ReadReturned /\ ~read.tracking) => ret = RetNone

\* C11, amended: a read_cnr_info call for a directory without the tracking marker returns
\* None unless an earlier call of this process returned an identity for the path; then it
\* returns that identity, without looking at the files.
C11_NoTrackingReturnsNoneUnlessMemoized ==
    (ReadReturned /\ ~read.tracking)
        => ret = (IF read.identity # NoRet THEN read.identity ELSE RetNone)

C11_Witness ==
    /\ ReadReturned
    /\ ~read.tracking
    /\ ~dirs[read.path].tracking
    /\ DescriptorGivesIdentity(read.path)
    /\ read.identity = NoRet
    /\ ret = RetNone

\* C12 as stated: once a read_cnr_info call for a path has returned a result, identity or
\* None, every later call for the path returns that result.
C12_FirstResultWins ==
    (ReadReturned /\ read.first # NoRet) => ret = read.first

\* C12, amended: once a read_cnr_info call for a path has returned an identity, every later
\* call for the path returns that identity, whatever happened to the files; a None result
\* is not memoized, the next call looks at the files again.
C12_FirstIdentityWins ==
    ReadReturned
        => ret = (IF read.identity # NoRet THEN read.identity ELSE read.found)

C12_Witness ==
    /\ ReadReturned
    /\ read.identity # NoRet
    /\ read.found # read.identity
    /\ ret = read.identity
    /\ ret.t = "dict"

-----------------------------------------------------------------------------
(* The client fingerprint *)

\* C13: every get_version_and_form_factor call of a process returns the pair the first call
\* returned, whatever the environment, the platform and the host version have become.
C13_SamePairOnEveryCall ==
    /\ ret.t = "tuple" => (first_pair.cached /\ ret = RetPair(first_pair))
    /\ version_cache.cached => version_cache = first_pair

C13_Witness ==
    /\ ret.t = "tuple"
    /\ ret = RetPair(first_pair)
    /\ version_and_form_factor(seen_env).comfyui_ver # first_pair.comfyui_ver
    /\ version_and_form_factor(seen_env).form_factor # first_pair.form_factor

-----------------------------------------------------------------------------
(* The companion identifier files *)

\* What the parts of C14 share: a generate_cnr_id call for a path whose file exists leaves
\* the file as it was, no call raises, and read_cnr_id returns None when the file is missing
\* or cannot be read.
IdFilesKept ==
    /\ (id_call.op = "generate_cnr_id" /\ id_call.before.exists)
           => (cnr_id_files[id_call.path] = id_call.before /\ ret = RetNone)
    /\ id_call.op # "" => raised = ""
    /\ (id_call.op = "read_cnr_id" /\ (~id_call.before.exists \/ id_call.how = "unreadable"))
           => ret = RetNone

\* A read_cnr_id call that read a file some generate_cnr_id call wrote.
ReadWritten ==
    /\ id_call.op = "read_cnr_id"
    /\ id_call.how = "read"
    /\ first_written[id_call.path] # NoRet

\* C14 as stated: generate_cnr_id never raises and leaves an existing file alone, so that
\* read_cnr_id returns the identifier the first successful generate_cnr_id call wrote;
\* read_cnr_id returns None when the file is missing or unreadable.
C14_ReadReturnsFirstWritten ==
    /\ IdFilesKept
    /\ ReadWritten => ret = first_written[id_call.path]

\* C14, amended: as above, but read_cnr_id returns the identifier the first successful
\* generate_cnr_id call wrote with its leading and trailing whitespace removed.
C14_ReadReturnsFirstWrittenStripped ==
    /\ IdFilesKept
    /\ ReadWritten => ret = RetStr(strip(first_written[id_call.path].v))

C14_Witness ==
    /\ ReadWritten
    /\ cnr_id_files[id_call.path].content # strip(cnr_id_files[id_call.path].content)
    /\ ret = RetStr(strip(first_written[id_call.path].v))

-----------------------------------------------------------------------------
(* The worker pool of fetch_all *)

\* C15: at every moment of fetch_all at most max_workers page fetches are in flight, however
\* many pages the registry has; page 1 is fetched before any other page is submitted.
C15_AtMostTenInFlight ==
    /\ Cardinality(Running) <= max_workers
    /\ pc = "fetch_first" => Running = {}

C15_Witness ==
    /\ total_pages > max_workers + 1
    /\ Cardinality(Running) = max_workers
    /\ Queued # {}

-----------------------------------------------------------------------------
(* The requests of fetch_all *)

PageOneSucceeded ==
    /\ ~Falsy(first_page)
    /\ {"nodes", "totalPages"} \subseteq DOMAIN first_page

\* C16: when page 1 succeeds and reports totalPages = N, fetch_all sends one GET for each
\* page of 1..N and none for any other page, never two for one page; and it returns only
\* when every one of them has completed, whichever of them failed.
C16_OneRequestPerPage ==
    PageOneSucceeded
        => /\ \A p \in DOMAIN requested :
                /\ requested[p] <= 1
                /\ (p > 1 /\ p > total_pages) => requested[p] = 0
                /\ (p \in DOMAIN tasks /\ tasks[p] # "queued") => requested[p] = 1
           /\ requested[1] = 1
           /\ FetchAllReturned
                => /\ \A p \in 1..total_pages : requested[p] = 1
                   /\ \A p \in DOMAIN tasks : tasks[p] = "done"
                   /\ DOMAIN tasks = 2..total_pages

C16_Witness ==
    /\ PageOneSucceeded
    /\ FetchAllReturned
    /\ total_pages = MaxPages
    /\ Falsy(results[2])
    /\ ~Falsy(results[MaxPages])
    /\ \A p \in 1..MaxPages : requested[p] = 1

-----------------------------------------------------------------------------
(* The tiers after a failed fetch *)

PageOneUnavailable == requested[1] = 1 /\ Falsy(first_page)

AfterFailedFetch == Returned /\ prev.valid /\ prev.outcome = "fetch_failed" /\ prev.page1_failed

\* C17: a get_cnr_data call whose live fetch fails because page 1 is unavailable leaves the
\* in-memory tier and the persisted tier as they were when it began; the next call with
\* cache_mode=True therefore finds the tiers the failed call found, and what it returns from
\* them is what it would have returned before the failed call.
C17_FailedFetchKeepsTiers ==
    /\ (Returned /\ PageOneUnavailable)
           => /\ outcome = "fetch_failed"
              /\ memory_cache = call.mem0
              /\ cache_files = call.files0
    /\ (AfterFailedFetch /\ call.cache_mode)
           => LET before == tier_lookup(prev.mem0, prev.files0, TRUE, call.dont_wait)
              IN  /\ call.mem0 = prev.mem0
                  /\ call.files0 = prev.files0
                  /\ before.outcome # "fetch" => (outcome = before.outcome /\ ret = before.ret)
                  /\ before.outcome = "fetch" => outcome \in {"fetched", "fetch_failed"}

C17_Witness ==
    /\ AfterFailedFetch
    /\ call.cache_mode
    /\ ~prev.cache_mode
    /\ uri \in DOMAIN prev.mem0
    /\ outcome = "memory_hit"
    /\ ret = RetList(prev.mem0[uri].nodes)
    /\ Len(ret.v) > 2

-----------------------------------------------------------------------------
(* The two tiers between calls *)

BetweenCalls == pc \in {"idle", "returned"}

\* C18: between get_cnr_data calls, whenever the in-memory tier holds an entry for the
\* listing, the persisted tier holds a file for the same URI with the same listing.
C18_MemoryEntryIsPersisted ==
    (BetweenCalls /\ uri \in DOMAIN memory_cache)
        => /\ path_exists(cache_files, get_cache_path(uri))
           /\ json_load(cache_files[get_cache_path(uri)]) = memory_cache[uri]

C18_Witness ==
    /\ Returned
    /\ outcome = "fetched"
    /\ uri \in DOMAIN call.mem0
    /\ memory_cache[uri] # call.mem0[uri]
    /\ json_load(cache_files[get_cache_path(uri)]) = memory_cache[uri]
    /\ prev.valid /\ prev.outcome = "persisted_hit"

-----------------------------------------------------------------------------
(* Concurrent refreshes *)

\* Both concurrent calls fetched, saved, stored and returned their listing.
BothReturned == \A t \in Threads : threads[t].pc = "returned"

\* C19 as stated: once two concurrent get_cnr_data(cache_mode=False) calls whose fetches
\* succeeded have both returned, the in-memory tier and the persisted tier hold the same
\* listing.
C19_TiersAgreeAfterRace ==
    BothReturned => memory_cache[uri] = json_load(cache_files[get_cache_path(uri)])

\* C19, amended: once both calls have returned, the persisted tier holds the listing of the
\* call whose save_to_cache ran last and the in-memory tier the listing of the call whose
\* store ran last; the tiers hold the same listing when that is the same call.
C19_EachTierLastWriterWins ==
    BothReturned
        => /\ json_load(cache_files[get_cache_path(uri)]) = threads[last_writer.persisted].json_obj
           /\ memory_cache[uri] = threads[last_writer.memory].json_obj
           /\ last_writer.persisted = last_writer.memory
                => memory_cache[uri] = json_load(cache_files[get_cache_path(uri)])

C19_Witness ==
    /\ BothReturned
    /\ threads[1].json_obj # threads[2].json_obj
    /\ last_writer.persisted # last_writer.memory
    /\ memory_cache[uri] # json_load(cache_files[get_cache_path(uri)])
    /\ memory_cache[uri] = threads[last_writer.memory].json_obj

-----------------------------------------------------------------------------
(* The cache entries of install_node *)

AnsweredFromCache == lookup.op = "install_node" /\ lookup.requests = 0

\* C20: an install_node call answered from the in-memory cache returns the record that an
\* earlier call with the same node_id and the same version fetched; calls with different
\* (node_id, version) never share a cache entry.
C20_CacheEntryPerArguments ==
    AnsweredFromCache
        => /\ lookup.known
           /\ ret = fetched[LookupArgs("install_node", lookup.node_id, lookup.version)]
           /\ ret.v[1].id = lookup.node_id

====
